---- MODULE Spec2Model ----
(***************************************************************************)
(* Model of speechify_client: the SpeechifyClient facade (client.py), its  *)
(* request executor _make_request, the error taxonomy (exceptions.py) and  *)
(* the data records (models.py).  The remote service and the requests      *)
(* library are the environment: every operation that reaches the network   *)
(* is answered by one element of Responses.                                *)
(***************************************************************************)
EXTENDS Integers, Sequences, FiniteSets, TLC

VARIABLES api_key, access_token, session_closes, request_count,
          last_request, last_call, session_open, scope, construction,
          created_token

vars == <<api_key, access_token, session_closes, request_count,
          last_request, last_call, session_open, scope, construction,
          created_token>>

----------------------------------------------------------------------------
(* Bounds of the model.                                                    *)

\* network requests one client issues before the model stops sending
MaxRequests == 2
\* close() calls one client receives before the model stops closing
MaxCloses == 2
\* entries in the voice lists the service answers with
MaxEntries == 2

----------------------------------------------------------------------------
(* Python values.  A value carries its type so that dict.get, truthiness   *)
(* and str() behave as they do in Python.                                  *)

PyNone == [t |-> "none"]
PyStr(s) == [t |-> "str", v |-> s]
PyInt(n) == [t |-> "int", v |-> n]
PyList(q) == [t |-> "list", v |-> q]
PyDict(d) == [t |-> "dict", v |-> d]
\* a float, by its decimal text
PyFloat(s) == [t |-> "float", v |-> s]

EmptyDict == PyDict(<<>>)

\* bool(x)
Truthy(x) ==
    CASE x.t = "none" -> FALSE
      [] x.t = "str"  -> x.v # ""
      [] x.t = "int"  -> x.v # 0
      [] x.t = "list" -> Len(x.v) > 0
      [] x.t = "dict" -> DOMAIN x.v # {}

\* str(x) as an f-string formats it (only the types a credential or a
\* status code can have)
PyFormat(x) ==
    CASE x.t = "none" -> "None"
      [] x.t = "str"  -> x.v
      [] x.t = "int"  -> ToString(x.v)
      [] OTHER        -> "<object>"

\* only a dict has a .get method; on any other value the attribute lookup
\* raises AttributeError
HasGet(x) == x.t = "dict"

\* d.get(k, default) for a dict d
Get(d, k, default) == IF k \in DOMAIN d.v THEN d.v[k] ELSE default

Whitespace == {" ", "\t", "\n"}

RECURSIVE lstrip(_)
lstrip(s) ==
    IF Len(s) > 0 /\ SubSeq(s, 1, 1) \in Whitespace
    THEN lstrip(SubSeq(s, 2, Len(s)))
    ELSE s

RECURSIVE rstrip(_)
rstrip(s) ==
    IF Len(s) > 0 /\ SubSeq(s, Len(s), Len(s)) \in Whitespace
    THEN rstrip(SubSeq(s, 1, Len(s) - 1))
    ELSE s

\* str.strip()
strip(s) == rstrip(lstrip(s))

\* s.startswith(p)
StartsWith(s, p) == Len(s) >= Len(p) /\ SubSeq(s, 1, Len(p)) = p

----------------------------------------------------------------------------
(* Program constants (client.py).                                          *)

API_BASE_URL == "https://api.sws.speechify.com/v1"
DEFAULT_TIMEOUT == 30

----------------------------------------------------------------------------
(* Error taxonomy (exceptions.py) and outcomes of a call.                  *)

\* SpeechifyError.__init__: message, status_code=None, response_data=None
SpeechifyError(cls, message, status_code, response_data) ==
    [cls |-> cls, message |-> message, status_code |-> status_code,
     response_data |-> response_data]

ValidationError(message) ==
    SpeechifyError("ValidationError", PyStr(message), PyNone, PyNone)

AuthenticationError(message, status_code) ==
    SpeechifyError("AuthenticationError", PyStr(message), status_code, PyNone)

APIError(message, status_code, response_data) ==
    SpeechifyError("APIError", message, status_code, response_data)

\* an exception that is not part of the taxonomy (AttributeError, TypeError,
\* ValueError) escaping to the caller
ForeignError(cls) == [cls |-> cls, message |-> PyNone, status_code |-> PyNone,
                      response_data |-> PyNone]

NoExc == ForeignError("none")

Return(v) == [raised |-> FALSE, exc |-> NoExc, value |-> v]
Raise(e) == [raised |-> TRUE, exc |-> e, value |-> PyNone]

SpeechifyErrorKinds == {"ValidationError", "AuthenticationError", "APIError"}

----------------------------------------------------------------------------
(* The environment: what requests.Session.request and Response.json() can  *)
(* do.  A body pairs the raw text with what Response.json() makes of it.   *)

\* exceptions of the requests library and of the json module
LibError(cls, str) == [cls |-> cls, message |-> PyStr(str),
                       status_code |-> PyNone, response_data |-> PyNone]

\* subclasses of requests.RequestException among the exceptions modelled;
\* requests >= 2.27 raises requests.JSONDecodeError from Response.json(),
\* older releases let the json module's ValueError through
IsRequestException(cls) ==
    cls \in {"requests.ConnectionError", "requests.Timeout",
             "requests.JSONDecodeError"}

IsValueError(cls) == cls \in {"requests.JSONDecodeError", "json.JSONDecodeError"}

JsonErrorClasses == {"requests.JSONDecodeError", "json.JSONDecodeError"}

JsonBody(text, value) ==
    [text |-> text, json_ok |-> TRUE, json |-> value, json_exc |-> "none"]

TextBody(text, cls) ==
    [text |-> text, json_ok |-> FALSE, json |-> PyNone, json_exc |-> cls]

TokenObject(tok) ==
    PyDict(("access_token" :> tok) @@ ("token_type" :> PyStr("bearer"))
           @@ ("expires_in" :> PyInt(3600)) @@ ("scope" :> PyStr("audio:speech")))

VoiceObject(key, id) ==
    PyDict((key :> PyStr(id)) @@ ("name" :> PyStr("Alex")))

JsonBodies ==
    { JsonBody("{\"message\": \"Invalid voice ID\"}",
               PyDict("message" :> PyStr("Invalid voice ID"))),
      JsonBody("{\"message\": null}", PyDict("message" :> PyNone)),
      JsonBody("{}", EmptyDict),
      JsonBody("[]", PyList(<<>>)),
      JsonBody("\"oops\"", PyStr("oops")),
      JsonBody("{\"access_token\": \"tok-1\", ...}", TokenObject(PyStr("tok-1"))),
      JsonBody("{\"access_token\": \"tok-2\"}",
               PyDict("access_token" :> PyStr("tok-2"))),
      JsonBody("{\"access_token\": \"\", ...}", TokenObject(PyStr(""))),
      JsonBody("{\"access_token\": null, ...}", TokenObject(PyNone)),
      JsonBody("{\"audioData\": \"abc==\", \"format\": \"mp3\"}",
               PyDict(("audioData" :> PyStr("abc==")) @@ ("format" :> PyStr("mp3")))),
      JsonBody("[{\"id\": \"voice-1\", ...}, {\"voice_id\": \"voice-2\", ...}]",
               PyList(<<VoiceObject("id", "voice-1"), VoiceObject("voice_id", "voice-2")>>)),
      JsonBody("{\"voices\": [{\"id\": \"voice-1\", ...}]}",
               PyDict("voices" :> PyList(<<VoiceObject("id", "voice-1")>>))),
      JsonBody("{\"id\": \"voice-1\", ...}", VoiceObject("id", "voice-1")) }

TextBodies ==
    { TextBody(text, cls) : text \in {"Internal Server Error", ""},
                            cls \in JsonErrorClasses }

Bodies == JsonBodies \cup TextBodies

Statuses == {200, 400, 401, 500}

HttpResponse(status, body) ==
    [kind |-> "http", status_code |-> status, body |-> body,
     exc |-> NoExc]

\* Session.request raising instead of returning
TransportFailure(cls, str) ==
    [kind |-> "failure", status_code |-> 0, body |-> TextBody("", "none"),
     exc |-> LibError(cls, str)]

TransportFailures ==
    { TransportFailure("requests.ConnectionError", "Network error"),
      TransportFailure("requests.Timeout", "Read timed out.") }

Responses ==
    { HttpResponse(st, b) : st \in Statuses, b \in Bodies }
        \cup TransportFailures

\* Response.json()
ResponseJson(resp) ==
    IF resp.body.json_ok
    THEN Return(resp.body.json)
    ELSE Raise(LibError(resp.body.json_exc, "Expecting value"))

----------------------------------------------------------------------------
(* HTTP request executor (client.py, _get_headers and _make_request).      *)

\* _get_headers ignoring the cached token
_get_headers_key_only(key, token, use_access_token) ==
    [Authorization |-> "Bearer " \o PyFormat(key),
     ContentType |-> "application/json"]

_get_headers(key, token, use_access_token) ==
    LET credential == IF use_access_token /\ Truthy(token) THEN token ELSE key
    IN  [Authorization |-> "Bearer " \o PyFormat(credential),
         ContentType |-> "application/json"]

\* the arguments of the one Session.request call of _make_request
RequestOf(key, token, method, endpoint, json_data, use_access_token) ==
    [method |-> method, url |-> API_BASE_URL \o endpoint, json |-> json_data,
     headers |-> _get_headers(key, token, use_access_token),
     timeout |-> DEFAULT_TIMEOUT]

\* ErrorStatus that always reports the generic message
ErrorStatusGenericMessage(resp) ==
    LET parsed == ResponseJson(resp)
    IN  IF parsed.raised /\ ~IsValueError(parsed.exc.cls)
        THEN parsed
        ELSE LET error_data == IF parsed.raised
                               THEN PyDict("message" :> PyStr(resp.body.text))
                               ELSE parsed.value
             IN  IF ~HasGet(error_data)
                 THEN Raise(ForeignError("AttributeError"))
                 ELSE Raise(APIError(
                        PyStr("API error: " \o ToString(resp.status_code)),
                        PyInt(resp.status_code), error_data))

\* lines 117-127: the status >= 400 branch
ErrorStatus(resp) ==
    LET parsed == ResponseJson(resp)
    IN  IF parsed.raised /\ ~IsValueError(parsed.exc.cls)
        THEN parsed
        ELSE LET error_data == IF parsed.raised
                               THEN PyDict("message" :> PyStr(resp.body.text))
                               ELSE parsed.value
             IN  IF ~HasGet(error_data)
                 THEN Raise(ForeignError("AttributeError"))
                 ELSE Raise(APIError(
                        Get(error_data, "message",
                            PyStr("API error: " \o ToString(resp.status_code))),
                        PyInt(resp.status_code), error_data))

\* TryBody with the status >= 400 test ahead of the 401 test
TryBodyStatusFirst(resp) ==
    IF resp.kind = "failure"
    THEN Raise(resp.exc)
    ELSE IF resp.status_code >= 400
    THEN ErrorStatus(resp)
    ELSE IF resp.status_code = 401
    THEN Raise(AuthenticationError("Invalid API key or expired access token",
                                   PyInt(resp.status_code)))
    ELSE ResponseJson(resp)

\* lines 102-129: the body of the try statement
TryBody(resp) ==
    IF resp.kind = "failure"
    THEN Raise(resp.exc)
    ELSE IF resp.status_code = 401
    THEN Raise(AuthenticationError("Invalid API key or expired access token",
                                   PyInt(resp.status_code)))
    ELSE IF resp.status_code >= 400
    THEN ErrorStatus(resp)
    ELSE ResponseJson(resp)

\* the except clause attaching a status code to a transport failure
ExceptRequestExceptionWithStatus(out) ==
    IF out.raised /\ IsRequestException(out.exc.cls)
    THEN Raise(APIError(PyStr("Request failed: " \o PyFormat(out.exc.message)),
                        PyInt(500), PyNone))
    ELSE out

\* lines 131-133: except requests.RequestException
ExceptRequestException(out) ==
    IF out.raised /\ IsRequestException(out.exc.cls)
    THEN Raise(APIError(PyStr("Request failed: " \o PyFormat(out.exc.message)),
                        PyNone, PyNone))
    ELSE out

\* _make_request sending the request a second time when the first attempt
\* fails
_make_request_retrying(key, token, method, endpoint, json_data, use_access_token, resp) ==
    LET out == ExceptRequestException(TryBody(resp))
    IN  [request |-> RequestOf(key, token, method, endpoint, json_data,
                               use_access_token),
         sent    |-> IF out.raised THEN 2 ELSE 1,
         outcome |-> out]

\* _make_request: the request it builds, how many times Session.request is
\* called (lines 102-108: once, in no loop), and what the caller gets
_make_request(key, token, method, endpoint, json_data, use_access_token, resp) ==
    [request |-> RequestOf(key, token, method, endpoint, json_data,
                           use_access_token),
     sent    |-> 1,
     outcome |-> ExceptRequestException(TryBody(resp))]

----------------------------------------------------------------------------
(* Data records (models.py).                                               *)

Instance(cls, fields) == [t |-> cls, v |-> fields]

\* the dataclass with all its fields given
SpeechSynthesisRequestOf(input_text, voice_id, audio_format, sample_rate, style, emotion) ==
    Instance("SpeechSynthesisRequest",
             ("input_text" :> input_text) @@ ("voice_id" :> voice_id)
             @@ ("audio_format" :> audio_format)
             @@ ("sample_rate" :> sample_rate)
             @@ ("style" :> style) @@ ("emotion" :> emotion))

\* the dataclass as synthesize constructs it: sample_rate, style and
\* emotion keep their default None
SpeechSynthesisRequest(input_text, voice_id, audio_format) ==
    SpeechSynthesisRequestOf(input_text, voice_id, audio_format,
                             PyNone, PyNone, PyNone)

\* to_dict without the `v is not None` filter
RequestToDictKeepNone(req) ==
    LET kept == {k \in DOMAIN req.v : k # "input_text"}
    IN  PyDict([k \in kept |-> req.v[k]] @@ ("input" :> req.v["input_text"]))

\* SpeechSynthesisRequest.to_dict
RequestToDict(req) ==
    LET kept == {k \in DOMAIN req.v : req.v[k].t # "none" /\ k # "input_text"}
    IN  PyDict([k \in kept |-> req.v[k]] @@ ("input" :> req.v["input_text"]))

\* from_dict reading audio data from the camelCase key only
SpeechSynthesisResponseFromDictCamelOnly(data) ==
    IF ~HasGet(data)
    THEN Raise(ForeignError("AttributeError"))
    ELSE Return(Instance("SpeechSynthesisResponse",
           [audio_data  |-> Get(data, "audioData", PyStr("")),
            duration    |-> Get(data, "duration", PyNone),
            sample_rate |-> Get(data, "sample_rate", Get(data, "sampleRate", PyNone)),
            format      |-> Get(data, "format", PyNone)]))

\* SpeechSynthesisResponse.from_dict
SpeechSynthesisResponseFromDict(data) ==
    IF ~HasGet(data)
    THEN Raise(ForeignError("AttributeError"))
    ELSE Return(Instance("SpeechSynthesisResponse",
           [audio_data  |-> Get(data, "audioData", Get(data, "audio_data", PyStr(""))),
            duration    |-> Get(data, "duration", PyNone),
            sample_rate |-> Get(data, "sample_rate", Get(data, "sampleRate", PyNone)),
            format      |-> Get(data, "format", PyNone)]))

\* AccessToken.from_dict
AccessTokenFromDict(data) ==
    IF ~HasGet(data)
    THEN Raise(ForeignError("AttributeError"))
    ELSE Return(Instance("AccessToken",
           [access_token |-> Get(data, "access_token", PyStr("")),
            token_type   |-> Get(data, "token_type", PyStr("bearer")),
            expires_in   |-> Get(data, "expires_in", PyInt(3600)),
            scope        |-> Get(data, "scope", PyNone)]))

Voice(voice_id, name, gender, language) ==
    Instance("Voice", [voice_id |-> voice_id, name |-> name,
                       gender |-> gender, language |-> language])

----------------------------------------------------------------------------
(* Client facade (client.py).  Each operation is an operator giving the    *)
(* request it sends (if any), what the caller gets and the cached token    *)
(* afterwards; the actions below apply it to the client's state.           *)

NoRequest ==
    [method |-> "", url |-> "", json |-> PyNone,
     headers |-> [Authorization |-> "", ContentType |-> ""], timeout |-> 0]

\* an operation that stops before _make_request
Rejected(token, exc) ==
    [sent |-> 0, request |-> NoRequest, outcome |-> Raise(exc), token |-> token]

\* IsBlank without the strip() test: only the empty string is rejected
IsBlankNoStrip(s) == ~Truthy(s)

\* `not s or not s.strip()` for a str argument
IsBlank(s) == ~Truthy(s) \/ ~Truthy(PyStr(strip(s.v)))

\* what iterating a value in a for statement yields: the elements of a
\* list, the characters of a str, the keys of a dict; None and int raise
\* TypeError
Iterable(x) == x.t \in {"list", "str", "dict"}

\* the keys of a dict, each a str, in one order
RECURSIVE KeysOf(_)
KeysOf(keys) ==
    IF keys = {} THEN <<>>
    ELSE LET k == CHOOSE k \in keys : TRUE
         IN  <<PyStr(k)>> \o KeysOf(keys \ {k})

Elements(x) ==
    CASE x.t = "list" -> x.v
      [] x.t = "str"  -> [i \in 1..Len(x.v) |-> PyStr(SubSeq(x.v, i, i))]
      [] x.t = "dict" -> KeysOf(DOMAIN x.v)

\* lines 198-206: one Voice per entry
VoicesOf(voice_list) ==
    IF ~Iterable(voice_list)
    THEN Raise(ForeignError("TypeError"))
    ELSE LET entries == Elements(voice_list)
         IN  IF \E i \in 1..Len(entries) : ~HasGet(entries[i])
             THEN Raise(ForeignError("AttributeError"))
             ELSE Return(PyList(
                    [i \in 1..Len(entries) |->
                        Voice(Get(entries[i], "id",
                                  Get(entries[i], "voice_id", PyStr(""))),
                              Get(entries[i], "name", PyStr("")),
                              Get(entries[i], "gender", PyNone),
                              Get(entries[i], "language", PyNone))]))

\* synthesize passing speed on in the request body
synthesize_sending_speed(key, token, text, voice_id, speed, audio_format, resp) ==
    IF IsBlank(text)
    THEN Rejected(token, ValidationError("Text input cannot be empty"))
    ELSE IF IsBlank(voice_id)
    THEN Rejected(token, ValidationError("Voice ID cannot be empty"))
    ELSE LET request_data == SpeechSynthesisRequest(text, voice_id, audio_format)
             body == PyDict(RequestToDict(request_data).v
                            @@ ("speed" :> PyInt(speed)))
             r == _make_request(key, token, "POST", "/audio/speech", body,
                                FALSE, resp)
         IN  [sent |-> r.sent, request |-> r.request, token |-> token,
              outcome |-> IF r.outcome.raised THEN r.outcome
                          ELSE SpeechSynthesisResponseFromDict(r.outcome.value)]

synthesize(key, token, text, voice_id, speed, audio_format, resp) ==
    IF IsBlank(text)
    THEN Rejected(token, ValidationError("Text input cannot be empty"))
    ELSE IF IsBlank(voice_id)
    THEN Rejected(token, ValidationError("Voice ID cannot be empty"))
    ELSE LET request_data == SpeechSynthesisRequest(text, voice_id, audio_format)
             r == _make_request(key, token, "POST", "/audio/speech",
                                RequestToDict(request_data), FALSE, resp)
         IN  [sent |-> r.sent, request |-> r.request, token |-> token,
              outcome |-> IF r.outcome.raised THEN r.outcome
                          ELSE SpeechSynthesisResponseFromDict(r.outcome.value)]

\* list_voices accepting a bare list only
list_voices_bare_only(key, token, resp) ==
    LET r == _make_request(key, token, "GET", "/voices", PyNone, FALSE, resp)
        response_data == r.outcome.value
    IN  [sent |-> r.sent, request |-> r.request, token |-> token,
         outcome |->
            IF r.outcome.raised THEN r.outcome
            ELSE IF response_data.t = "list" THEN VoicesOf(response_data)
            ELSE IF ~HasGet(response_data)
            THEN Raise(ForeignError("AttributeError"))
            ELSE VoicesOf(PyList(<<>>))]

list_voices(key, token, resp) ==
    LET r == _make_request(key, token, "GET", "/voices", PyNone, FALSE, resp)
        response_data == r.outcome.value
    IN  [sent |-> r.sent, request |-> r.request, token |-> token,
         outcome |->
            IF r.outcome.raised THEN r.outcome
            ELSE IF response_data.t = "list" THEN VoicesOf(response_data)
            ELSE IF ~HasGet(response_data)
            THEN Raise(ForeignError("AttributeError"))
            ELSE VoicesOf(Get(response_data, "voices", PyList(<<>>)))]

get_voice(key, token, voice_id, resp) ==
    IF IsBlank(voice_id)
    THEN Rejected(token, ValidationError("Voice ID cannot be empty"))
    ELSE LET r == _make_request(key, token, "GET", "/voices/" \o voice_id.v,
                                PyNone, FALSE, resp)
             response_data == r.outcome.value
         IN  [sent |-> r.sent, request |-> r.request, token |-> token,
              outcome |->
                 IF r.outcome.raised THEN r.outcome
                 ELSE IF ~HasGet(response_data)
                 THEN Raise(ForeignError("AttributeError"))
                 ELSE Return(Voice(
                        Get(response_data, "id",
                            Get(response_data, "voice_id", PyNone)),
                        Get(response_data, "name", PyStr("")),
                        Get(response_data, "gender", PyNone),
                        Get(response_data, "language", PyNone)))]

\* create_access_token dropping the cached token when it fails
create_access_token_clearing(key, token, resp) ==
    LET r == _make_request(key, token, "POST", "/auth/token", PyNone, FALSE, resp)
        made == IF r.outcome.raised THEN r.outcome
                ELSE AccessTokenFromDict(r.outcome.value)
    IN  [sent |-> r.sent, request |-> r.request, outcome |-> made,
         token |-> IF made.raised THEN PyNone
                   ELSE made.value.v.access_token]

\* create_access_token authenticating with the cached token
create_access_token_with_token(key, token, resp) ==
    LET r == _make_request(key, token, "POST", "/auth/token", PyNone, TRUE, resp)
        made == IF r.outcome.raised THEN r.outcome
                ELSE AccessTokenFromDict(r.outcome.value)
    IN  [sent |-> r.sent, request |-> r.request, outcome |-> made,
         token |-> IF made.raised THEN token
                   ELSE made.value.v.access_token]

create_access_token(key, token, resp) ==
    LET r == _make_request(key, token, "POST", "/auth/token", PyNone, FALSE, resp)
        made == IF r.outcome.raised THEN r.outcome
                ELSE AccessTokenFromDict(r.outcome.value)
    IN  [sent |-> r.sent, request |-> r.request, outcome |-> made,
         token |-> IF made.raised THEN token
                   ELSE made.value.v.access_token]

----------------------------------------------------------------------------
(* State machine: one client, called sequentially.                         *)

ApiKeys == {PyStr("test-api-key")}
Texts == {PyStr(""), PyStr(" \t\n"), PyStr("Hello")}
VoiceIds == {PyStr(""), PyStr("  "), PyStr("voice-1")}
\* speed in hundredths (1.25 is the default of synthesize)
Speeds == {125, 100}
AudioFormats == {PyStr("mp3")}

NoArgs == [text |-> PyNone, voice_id |-> PyNone, speed |-> 0,
           audio_format |-> PyNone, sample_rate |-> PyNone, style |-> PyNone,
           emotion |-> PyNone]

NoResponse == TransportFailure("none", "")

\* what last_call records about a call: the operation, its arguments, what
\* the caller got, the requests it sent, the response that answered it, and
\* the client's state before the call
CallRecord(op, args, outcome, sent, answered) ==
    [op |-> op, args |-> args, outcome |-> outcome, sent |-> sent,
     answered |-> answered, requests_before |-> request_count,
     token_before |-> access_token, closes_before |-> session_closes,
     open_before |-> session_open]

\* a client constructed with an explicit key
Constructed(key) == [phase |-> "ready", api_key_arg |-> key, env_key |-> PyNone]

Init ==
    /\ api_key \in ApiKeys
    /\ access_token = PyNone
    /\ session_closes = 0
    /\ request_count = 0
    /\ last_request = NoRequest
    /\ session_open = FALSE
    /\ scope = "outside"
    /\ construction = Constructed(api_key)
    /\ created_token = PyNone
    /\ last_call = [op |-> "init", args |-> NoArgs, outcome |-> Return(PyNone),
                    sent |-> 0, answered |-> NoResponse, requests_before |-> 0,
                    token_before |-> PyNone, closes_before |-> 0,
                    open_before |-> FALSE]

\* the effect of one finished call r of operation op on the client
Apply(op, args, r, resp) ==
    /\ construction.phase = "ready"
    /\ request_count + r.sent <= MaxRequests
    /\ request_count' = request_count + r.sent
    /\ last_request' = IF r.sent > 0 THEN r.request ELSE last_request
    /\ access_token' = r.token
    /\ session_open' = (session_open \/ r.sent > 0)
    /\ created_token' = IF op = "create_access_token" /\ ~r.outcome.raised
                        THEN r.outcome.value.v.access_token
                        ELSE created_token
    /\ last_call' = CallRecord(op, args, r.outcome, r.sent,
                               IF r.sent > 0 THEN resp ELSE NoResponse)
    /\ UNCHANGED <<api_key, session_closes, scope, construction>>

AnyResponse == CHOOSE resp \in Responses : TRUE

\* an argument left out of a call takes the default of the signature
Omitted == [t |-> "omitted"]
DefaultArg(arg, default) == IF arg.t = "omitted" THEN default ELSE arg

SynthesizeOn(texts, voice_ids, speeds, audio_formats, responses) ==
    \E text \in texts, voice_id \in voice_ids, speed \in speeds,
       audio_format \in audio_formats :
        LET args == [NoArgs EXCEPT !.text = text, !.voice_id = voice_id,
                                   !.speed = speed,
                                   !.audio_format = audio_format]
        IN  \E resp \in IF IsBlank(text) \/ IsBlank(voice_id)
                        THEN {AnyResponse} ELSE responses :
                Apply("synthesize", args,
                      synthesize(api_key, access_token, text, voice_id, speed,
                                 DefaultArg(audio_format, PyStr("mp3")), resp),
                      resp)

ListVoicesOn(responses) ==
    \E resp \in responses :
        Apply("list_voices", NoArgs,
              list_voices(api_key, access_token, resp), resp)

GetVoiceOn(voice_ids, responses) ==
    \E voice_id \in voice_ids :
        \E resp \in IF IsBlank(voice_id) THEN {AnyResponse} ELSE responses :
            Apply("get_voice", [NoArgs EXCEPT !.voice_id = voice_id],
                  get_voice(api_key, access_token, voice_id, resp), resp)

CreateAccessTokenOn(responses) ==
    \E resp \in responses :
        Apply("create_access_token", NoArgs,
              create_access_token(api_key, access_token, resp), resp)

Synthesize == SynthesizeOn(Texts, VoiceIds, Speeds, AudioFormats, Responses)

ListVoices == ListVoicesOn(Responses)

GetVoice == GetVoiceOn(VoiceIds, Responses)

CreateAccessToken == CreateAccessTokenOn(Responses)

\* close() failing on a session that was closed before
CloseOnce ==
    /\ construction.phase = "ready"
    /\ session_closes < MaxCloses
    /\ session_closes' = session_closes + 1
    /\ session_open' = FALSE
    /\ last_call' = CallRecord("close", NoArgs,
                               IF session_closes > 0
                               THEN Raise(ForeignError("RuntimeError"))
                               ELSE Return(PyNone), 0, NoResponse)
    /\ UNCHANGED <<api_key, access_token, request_count, last_request, scope,
                   construction, created_token>>

\* close(): Session.close() releases the pooled connections and raises
\* nothing; the session stays usable and nothing else of the client changes
Close ==
    /\ construction.phase = "ready"
    /\ session_closes < MaxCloses
    /\ session_closes' = session_closes + 1
    /\ session_open' = FALSE
    /\ last_call' = CallRecord("close", NoArgs, Return(PyNone), 0, NoResponse)
    /\ UNCHANGED <<api_key, access_token, request_count, last_request, scope,
                   construction, created_token>>

Next == Synthesize \/ ListVoices \/ GetVoice \/ CreateAccessToken \/ Close

Spec == Init /\ [][Next]_vars

----------------------------------------------------------------------------
(* Life cycle: construction, use as a context manager, close.              *)

MissingKeyMessage ==
    "Speechify API key not provided. Set SPEECHIFY_API_KEY "
        \o "environment variable or pass api_key parameter."

\* __init__ letting the environment variable override the argument
__init__env_first(api_key_arg, env_key) ==
    LET chosen == IF Truthy(env_key) THEN env_key ELSE api_key_arg
    IN  IF ~Truthy(chosen)
        THEN Raise(ValidationError(MissingKeyMessage))
        ELSE Return(chosen)

\* __init__, lines 50-55: `api_key or os.getenv("SPEECHIFY_API_KEY")`, then
\* ValidationError when the result is empty; the value is self.api_key
__init__(api_key_arg, env_key) ==
    LET chosen == IF Truthy(api_key_arg) THEN api_key_arg ELSE env_key
    IN  IF ~Truthy(chosen)
        THEN Raise(ValidationError(MissingKeyMessage))
        ELSE Return(chosen)

\* __enter__ returns self
Self == [t |-> "SpeechifyClient"]

\* __exit__ closing only when the block ended without an error
__exit__unless_error(exc) ==
    [closes |-> IF exc.cls = "none" THEN 1 ELSE 0, returns |-> PyNone]

\* __exit__(exc_type, exc_val, exc_tb): calls close() and returns None
__exit__(exc) == [closes |-> 1, returns |-> PyNone]

\* the api_key argument and the SPEECHIFY_API_KEY environment variable
KeyArguments == {PyNone, PyStr(""), PyStr("test-api-key")}
EnvironmentKeys == {PyNone, PyStr(""), PyStr("env-key")}

LifecycleTexts == {PyStr(""), PyStr("Hello")}
LifecycleVoiceIds == {PyStr("voice-1")}
LifecycleResponses ==
    { HttpResponse(200, JsonBody("{\"access_token\": \"tok-1\", ...}",
                                 TokenObject(PyStr("tok-1")))),
      HttpResponse(401, JsonBody("{}", EmptyDict)),
      HttpResponse(500, TextBody("Internal Server Error",
                                 "requests.JSONDecodeError")),
      TransportFailure("requests.ConnectionError", "Network error") }

\* how the block of a with statement can end
BlockExit(exc) ==
    [kind |-> "block", status_code |-> 0, body |-> TextBody("", "none"),
     exc |-> exc]

InitLifecycle ==
    /\ api_key = PyNone
    /\ access_token = PyNone
    /\ session_closes = 0
    /\ request_count = 0
    /\ last_request = NoRequest
    /\ session_open = FALSE
    /\ scope = "outside"
    /\ construction \in [phase : {"new"}, api_key_arg : KeyArguments,
                         env_key : EnvironmentKeys]
    /\ created_token = PyNone
    /\ last_call = [op |-> "init", args |-> NoArgs, outcome |-> Return(PyNone),
                    sent |-> 0, answered |-> NoResponse, requests_before |-> 0,
                    token_before |-> PyNone, closes_before |-> 0,
                    open_before |-> FALSE]

Construct ==
    /\ construction.phase = "new"
    /\ LET made == __init__(construction.api_key_arg, construction.env_key)
       IN  /\ construction' =
                 [construction EXCEPT !.phase = IF made.raised THEN "failed"
                                                ELSE "ready"]
           /\ api_key' = IF made.raised THEN PyNone ELSE made.value
           /\ last_call' = CallRecord("__init__", NoArgs,
                                      IF made.raised THEN made
                                      ELSE Return(PyNone), 0, NoResponse)
    /\ UNCHANGED <<access_token, session_closes, request_count, last_request,
                   session_open, scope, created_token>>

Enter ==
    /\ construction.phase = "ready"
    /\ scope = "outside"
    /\ scope' = "inside"
    /\ last_call' = CallRecord("__enter__", NoArgs, Return(Self), 0, NoResponse)
    /\ UNCHANGED <<api_key, access_token, session_closes, request_count,
                   last_request, session_open, construction, created_token>>

\* the errors the block can end with: the one its last call raised, or an
\* error of the caller's own code
BlockErrors ==
    {ForeignError("KeyError")}
        \cup IF last_call.op \in {"synthesize", "list_voices", "get_voice",
                                  "create_access_token"}
                /\ last_call.outcome.raised
             THEN {last_call.outcome.exc} ELSE {}

\* leaving the with block: __exit__ runs, and the error of the block is
\* raised again unless __exit__ returned a true value
Exit ==
    /\ scope = "inside"
    /\ session_closes < MaxCloses
    /\ \E exc \in {NoExc} \cup BlockErrors :
        LET left == __exit__(exc)
        IN  /\ session_closes' = session_closes + left.closes
            /\ session_open' = IF left.closes > 0 THEN FALSE ELSE session_open
            /\ last_call' = CallRecord("__exit__", NoArgs,
                                IF exc.cls # "none" /\ ~Truthy(left.returns)
                                THEN Raise(exc) ELSE Return(PyNone),
                                0, BlockExit(exc))
    /\ scope' = "outside"
    /\ UNCHANGED <<api_key, access_token, request_count, last_request,
                   construction, created_token>>

NextLifecycle ==
    \/ Construct
    \/ Enter
    \/ Exit
    \/ Close
    \/ SynthesizeOn(LifecycleTexts, LifecycleVoiceIds, {125}, {PyStr("mp3")},
                    LifecycleResponses)
    \/ ListVoicesOn(LifecycleResponses)
    \/ GetVoiceOn(LifecycleVoiceIds, LifecycleResponses)
    \/ CreateAccessTokenOn(LifecycleResponses)

SpecLifecycle == InitLifecycle /\ [][NextLifecycle]_vars

----------------------------------------------------------------------------
(* Shaping of requests and of success responses: the facade answered with  *)
(* status 200 and bodies of every shape the records accept.                *)

Absent == [t |-> "absent"]

\* a JSON object with the keys of c that are not Absent
ObjectOf(c) == PyDict([k \in {k \in DOMAIN c : c[k].t # "absent"} |-> c[k]])

VoiceEntries ==
    { ObjectOf([id |-> i, voice_id |-> v, name |-> n]) :
        i \in {Absent, PyStr("voice-1")}, v \in {Absent, PyStr("voice-2")},
        n \in {PyStr("Alex")} }
      \cup { PyDict(("id" :> PyStr("voice-3")) @@ ("gender" :> PyStr("male"))
                    @@ ("language" :> PyStr("en-US"))) }

EntryLists == UNION { [1..n -> VoiceEntries] : n \in 0..MaxEntries }

BareList(entries) == JsonBody("[...]", PyList(entries))
WrappedList(entries) ==
    JsonBody("{\"voices\": [...]}", PyDict("voices" :> PyList(entries)))

VoiceListResponses ==
    { HttpResponse(200, BareList(l)) : l \in EntryLists }
      \cup { HttpResponse(200, WrappedList(l)) : l \in EntryLists }
      \cup { HttpResponse(200, JsonBody("{}", EmptyDict)) }

VoiceResponses ==
    { HttpResponse(200, JsonBody("{...}", e)) : e \in VoiceEntries }

SynthesisPayloads ==
    { ObjectOf(c) :
        c \in [audioData   : {Absent, PyStr("abc==")},
               audio_data  : {Absent, PyStr("xyz=")},
               sampleRate  : {Absent, PyInt(44100)},
               sample_rate : {Absent, PyInt(22050)},
               duration    : {Absent, PyFloat("2.5")},
               format      : {Absent, PyStr("mp3")}] }

SynthesisResponses ==
    { HttpResponse(200, JsonBody("{...}", d)) : d \in SynthesisPayloads }

ShapingTexts == {PyStr("Hello")}
ShapingVoiceIds == {PyStr("voice-1")}
ShapingFormats == {Omitted, PyStr("wav")}

\* SpeechSynthesisRequest(...).to_dict() on a request built by the caller
ToDict ==
    \E sample_rate \in {PyNone, PyInt(44100)}, style \in {PyNone, PyStr("calm")},
       emotion \in {PyNone, PyStr("happy")} :
        /\ construction.phase = "ready"
        /\ last_call' =
              CallRecord("to_dict",
                  [NoArgs EXCEPT !.text = PyStr("Hello"),
                                 !.voice_id = PyStr("voice-1"),
                                 !.audio_format = PyStr("mp3"),
                                 !.sample_rate = sample_rate,
                                 !.style = style, !.emotion = emotion],
                  Return(RequestToDict(
                      SpeechSynthesisRequestOf(PyStr("Hello"), PyStr("voice-1"),
                          PyStr("mp3"), sample_rate, style, emotion))),
                  0, NoResponse)
        /\ UNCHANGED <<api_key, access_token, session_closes, request_count,
                       last_request, session_open, scope, construction,
                       created_token>>

NextShaping ==
    \/ SynthesizeOn(ShapingTexts, ShapingVoiceIds, Speeds, ShapingFormats,
                    SynthesisResponses)
    \/ ListVoicesOn(VoiceListResponses)
    \/ GetVoiceOn(ShapingVoiceIds, VoiceResponses)
    \/ ToDict

SpecShaping == Init /\ [][NextShaping]_vars

----------------------------------------------------------------------------
(* Properties.  last_call describes the call that has just finished:       *)
(* its arguments, the response that answered it (when a request was sent), *)
(* what the caller got, and the client's state before it.                  *)

NetworkOps == {"synthesize", "list_voices", "get_voice", "create_access_token"}

\* empty or whitespace-only, stated without str.strip()
AllWhitespace(s) == \A i \in 1..Len(s) : SubSeq(s, i, i) \in Whitespace
BlankArg(x) == x.t = "str" /\ AllWhitespace(x.v)

\* the call that has just finished had an argument its validation rejects
BlankCall ==
    \/ /\ last_call.op = "synthesize"
       /\ BlankArg(last_call.args.text) \/ BlankArg(last_call.args.voice_id)
    \/ /\ last_call.op = "get_voice"
       /\ BlankArg(last_call.args.voice_id)

Answered == last_call.op \in NetworkOps /\ last_call.sent > 0
AnsweredHttp == Answered /\ last_call.answered.kind = "http"
Raised(cls) == last_call.outcome.raised /\ last_call.outcome.exc.cls = cls
Bearer(credential) == "Bearer " \o credential

\* C1: a synthesize call with blank text or voice_id, and a get_voice call
\* with blank voice_id, fails with ValidationError and leaves the number of
\* network requests issued by the client unchanged.
C1_BlankArgumentsRejected ==
    BlankCall =>
        /\ Raised("ValidationError")
        /\ last_call.sent = 0
        /\ request_count = last_call.requests_before

\* a whitespace-only voice_id is rejected by a client that has already
\* issued requests
C1_Witness ==
    /\ last_call.op = "get_voice"
    /\ last_call.args.voice_id = PyStr("  ")
    /\ Raised("ValidationError")
    /\ request_count > 0

\* C2: an operation answered with HTTP 401 fails with AuthenticationError
\* carrying status code 401, whatever the body.
C2_UnauthorizedIsAuthenticationError ==
    (AnsweredHttp /\ last_call.answered.status_code = 401) =>
        /\ Raised("AuthenticationError")
        /\ last_call.outcome.exc.status_code = PyInt(401)

\* create_access_token answered 401 with a body that is a JSON list
C2_Witness ==
    /\ last_call.op = "create_access_token"
    /\ AnsweredHttp
    /\ last_call.answered.status_code = 401
    /\ last_call.answered.body.json_ok
    /\ last_call.answered.body.json.t = "list"
    /\ Raised("AuthenticationError")

\* C3: an operation answered with a status >= 400 other than 401 fails with
\* APIError carrying that status code, whatever the body is (JSON object,
\* JSON value that is not an object, text that is not JSON).
C3_ErrorStatusIsAPIError ==
    (AnsweredHttp /\ last_call.answered.status_code >= 400
                  /\ last_call.answered.status_code # 401) =>
        /\ Raised("APIError")
        /\ last_call.outcome.exc.status_code
               = PyInt(last_call.answered.status_code)

\* C4: an APIError raised for a status >= 400 other than 401 carries the
\* body's message field when the parsed body has one, else
\* "API error: <status>"; for a body that is not JSON the raw text; and
\* response_data is the parsed or synthesized body.
C4_APIErrorMessage ==
    (AnsweredHttp /\ last_call.answered.status_code >= 400
                  /\ last_call.answered.status_code # 401
                  /\ Raised("APIError")) =>
        LET body == last_call.answered.body
            exc == last_call.outcome.exc
        IN  IF body.json_ok
            THEN /\ body.json.t = "dict"
                 /\ exc.response_data = body.json
                 /\ exc.message =
                       IF "message" \in DOMAIN body.json.v
                       THEN body.json.v["message"]
                       ELSE PyStr("API error: "
                                  \o ToString(last_call.answered.status_code))
            ELSE /\ exc.message = PyStr(body.text)
                 /\ exc.response_data = PyDict("message" :> PyStr(body.text))

\* synthesize answered 400 {"message": "Invalid voice ID"}
C4_Witness ==
    /\ last_call.op = "synthesize"
    /\ AnsweredHttp
    /\ last_call.answered.status_code = 400
    /\ Raised("APIError")
    /\ last_call.outcome.exc.message = PyStr("Invalid voice ID")
    /\ last_call.outcome.exc.status_code = PyInt(400)

\* C5: an operation whose request fails in the transport fails with
\* APIError whose message begins with "Request failed:" and whose
\* status_code is None.
C5_TransportFailureIsAPIError ==
    (Answered /\ last_call.answered.kind = "failure") =>
        /\ Raised("APIError")
        /\ last_call.outcome.exc.message.t = "str"
        /\ StartsWith(last_call.outcome.exc.message.v, "Request failed:")
        /\ last_call.outcome.exc.status_code = PyNone

\* list_voices on a connection error
C5_Witness ==
    /\ last_call.op = "list_voices"
    /\ Answered
    /\ last_call.answered.kind = "failure"
    /\ last_call.answered.exc.cls = "requests.ConnectionError"
    /\ last_call.outcome.exc.message = PyStr("Request failed: Network error")

\* C6: an operation answered with a status < 400 and a body that is not
\* valid JSON fails with APIError.
C6_MalformedSuccessBodyIsAPIError ==
    (AnsweredHttp /\ last_call.answered.status_code < 400
                  /\ ~last_call.answered.body.json_ok) =>
        Raised("APIError")

\* whether the call that has just finished passed its validation
PassedValidation ==
    /\ last_call.op \in NetworkOps
    /\ ~BlankCall

\* C7: every call of an operation issues exactly one network request when
\* its validation passes and none when it fails, whatever the outcome.
C7_OneRequestPerCall ==
    last_call.op \in NetworkOps =>
        /\ last_call.sent = IF PassedValidation THEN 1 ELSE 0
        /\ request_count = last_call.requests_before + last_call.sent

\* a failed call (HTTP 500) that has sent its one request
C7_Witness ==
    /\ AnsweredHttp
    /\ last_call.answered.status_code = 500
    /\ last_call.outcome.raised
    /\ last_call.sent = 1
    /\ request_count = 2

\* create_access_token has just returned an AccessToken built from a
\* response that has an access_token field
TokenCreated ==
    /\ last_call.op = "create_access_token"
    /\ ~last_call.outcome.raised
    /\ "access_token" \in DOMAIN last_call.answered.body.json.v
\* the access_token of that response
ReturnedToken == last_call.answered.body.json.v["access_token"]
AuthorizationWith(use_access_token) ==
    _get_headers(api_key, access_token, use_access_token).Authorization

\* C8 as stated: after create_access_token succeeds with access_token T (a
\* string) the cached credential is T and headers built with access-token
\* auth selected carry "Bearer T"; with access-token auth not selected, or
\* with no cached token, they carry "Bearer <api_key>".
C8_TokenCachedAndUsed ==
    /\ (TokenCreated /\ ReturnedToken.t = "str") =>
          /\ access_token = ReturnedToken
          /\ AuthorizationWith(TRUE) = Bearer(ReturnedToken.v)
    /\ AuthorizationWith(FALSE) = Bearer(api_key.v)
    /\ access_token = PyNone => AuthorizationWith(TRUE) = Bearer(api_key.v)

\* C8 amended: after create_access_token succeeds with access_token T the
\* cached credential is T; headers built with access-token auth selected
\* carry "Bearer T" when T is a non-empty string; with access-token auth
\* not selected, or with no cached token or an empty one, they carry
\* "Bearer <api_key>".
C8_NonEmptyTokenCachedAndUsed ==
    /\ TokenCreated => access_token = ReturnedToken
    /\ (TokenCreated /\ ReturnedToken.t = "str" /\ ReturnedToken.v # "") =>
          AuthorizationWith(TRUE) = Bearer(ReturnedToken.v)
    /\ AuthorizationWith(FALSE) = Bearer(api_key.v)
    /\ (access_token = PyNone \/ access_token = PyStr("")) =>
          AuthorizationWith(TRUE) = Bearer(api_key.v)

\* create_access_token has succeeded with access_token "tok-1"
C8_Witness ==
    /\ TokenCreated
    /\ ReturnedToken = PyStr("tok-1")
    /\ access_token = PyStr("tok-1")
    /\ AuthorizationWith(TRUE) = "Bearer tok-1"

\* C9: once create_access_token has cached a token, every later
\* list_voices, get_voice or synthesize call sends the access token as the
\* bearer credential.
C9_TokenUsedAfterCreation ==
    (Answered /\ last_call.op # "create_access_token"
              /\ Truthy(last_call.token_before)) =>
        last_request.headers.Authorization
            = Bearer(PyFormat(last_call.token_before))

\* C10: every create_access_token call, also one made with a token already
\* cached, sends POST /auth/token with the API key as the bearer credential
\* and not the cached access token.
C10_TokenRequestUsesApiKey ==
    (Answered /\ last_call.op = "create_access_token") =>
        /\ last_request.method = "POST"
        /\ last_request.url = API_BASE_URL \o "/auth/token"
        /\ last_request.headers.Authorization = Bearer(api_key.v)
        /\ (Truthy(last_call.token_before) /\ last_call.token_before # api_key) =>
              last_request.headers.Authorization
                  # Bearer(PyFormat(last_call.token_before))

\* create_access_token called with a token already cached
C10_Witness ==
    /\ Answered
    /\ last_call.op = "create_access_token"
    /\ last_call.token_before = PyStr("tok-1")
    /\ last_request.headers.Authorization = "Bearer test-api-key"

\* what a caller can observe of the facade: its credentials and whether
\* the session holds connections
FacadeState == <<api_key, access_token, session_open>>

\* C11: close() never raises and leaves the session released; a close()
\* that directly follows another close() leaves the facade in the state the
\* first one left it in.
C11_CloseIdempotent ==
    [][last_call'.op = "close" =>
          /\ ~last_call'.outcome.raised
          /\ ~session_open'
          /\ <<api_key, access_token>>' = <<api_key, access_token>>
          /\ last_call.op = "close" => FacadeState' = FacadeState]_vars

\* close() called on a session that was used and then already closed
C11_Witness ==
    /\ last_call.op = "close"
    /\ last_call.closes_before >= 1
    /\ ~last_call.open_before
    /\ request_count > 0
    /\ ~last_call.outcome.raised
    /\ session_closes = 2

\* C12: entering the scope yields the facade itself; leaving it calls
\* close() exactly once, whether the block ended normally or with an error,
\* and an error of the block still reaches the caller.
C12_ExitAlwaysCloses ==
    /\ last_call.op = "__enter__" =>
          last_call.outcome = Return(Self) /\ scope = "inside"
    /\ last_call.op = "__exit__" =>
          /\ session_closes = last_call.closes_before + 1
          /\ ~session_open
          /\ last_call.outcome.raised = (last_call.answered.exc.cls # "none")
          /\ last_call.outcome.raised =>
                last_call.outcome.exc = last_call.answered.exc

\* a block that ended with the APIError of one of its calls has been left
C12_Witness ==
    /\ last_call.op = "__exit__"
    /\ last_call.answered.exc.cls = "APIError"
    /\ Raised("APIError")
    /\ last_call.open_before
    /\ session_closes = last_call.closes_before + 1

\* a non-empty API key, stated without Python's truth value
NonEmptyKey(x) == x.t = "str" /\ Len(x.v) > 0
KeyAvailable ==
    NonEmptyKey(construction.api_key_arg) \/ NonEmptyKey(construction.env_key)

\* C18: construction fails with ValidationError exactly when neither the
\* argument nor the environment gives a non-empty key; otherwise the
\* argument takes precedence over the environment, and in every state of
\* the constructed facade the API key is non-empty and is the key chosen at
\* construction.
C18_ApiKeyChosenAtConstruction ==
    /\ construction.phase = "failed" =>
          /\ ~KeyAvailable
          /\ last_call.op = "__init__"
          /\ Raised("ValidationError")
    /\ construction.phase = "ready" =>
          /\ KeyAvailable
          /\ NonEmptyKey(api_key)
          /\ api_key = IF NonEmptyKey(construction.api_key_arg)
                       THEN construction.api_key_arg
                       ELSE construction.env_key

\* a facade constructed with both an argument and an environment key has
\* sent requests and been closed
C18_Witness ==
    /\ construction.phase = "ready"
    /\ construction.api_key_arg = PyStr("test-api-key")
    /\ construction.env_key = PyStr("env-key")
    /\ api_key = PyStr("test-api-key")
    /\ request_count > 0
    /\ session_closes > 0

\* the call that has just finished was answered 200 with a JSON body
AnsweredOk(op) ==
    /\ last_call.op = op
    /\ AnsweredHttp
    /\ last_call.answered.status_code = 200
    /\ last_call.answered.body.json_ok
AnsweredJson == last_call.answered.body.json

\* the Voice an entry stands for: id, or else voice_id
VoiceFor(e) ==
    Voice(IF "id" \in DOMAIN e.v THEN e.v["id"]
          ELSE IF "voice_id" \in DOMAIN e.v THEN e.v["voice_id"]
          ELSE PyStr(""),
          IF "name" \in DOMAIN e.v THEN e.v["name"] ELSE PyStr(""),
          IF "gender" \in DOMAIN e.v THEN e.v["gender"] ELSE PyNone,
          IF "language" \in DOMAIN e.v THEN e.v["language"] ELSE PyNone)
VoicesFor(entries) ==
    Return(PyList([i \in 1..Len(entries) |-> VoiceFor(entries[i])]))

\* what list_voices gives on this client when answered 200 with the body
ListVoicesGiven(body) ==
    list_voices(api_key, last_call.token_before, HttpResponse(200, body)).outcome

\* C13: list_voices gives the same result for the bare list of entries as
\* for the object holding that list under `voices`: one Voice per entry, in
\* order, voice_id from `id` or else `voice_id`; an empty list, or an
\* object without `voices`, gives the empty sequence and no error.
C13_ListShapesAgree ==
    AnsweredOk("list_voices") =>
        /\ AnsweredJson.t = "list" =>
              /\ last_call.outcome = VoicesFor(AnsweredJson.v)
              /\ last_call.outcome = ListVoicesGiven(WrappedList(AnsweredJson.v))
        /\ (AnsweredJson.t = "dict" /\ "voices" \in DOMAIN AnsweredJson.v) =>
              /\ last_call.outcome = VoicesFor(AnsweredJson.v["voices"].v)
              /\ last_call.outcome
                     = ListVoicesGiven(BareList(AnsweredJson.v["voices"].v))
        /\ (AnsweredJson.t = "dict" /\ "voices" \notin DOMAIN AnsweredJson.v) =>
              last_call.outcome = Return(PyList(<<>>))

\* the wrapped list of two entries, one with `id` and one with `voice_id`
C13_Witness ==
    /\ AnsweredOk("list_voices")
    /\ AnsweredJson.t = "dict"
    /\ "voices" \in DOMAIN AnsweredJson.v
    /\ ~last_call.outcome.raised
    /\ Len(last_call.outcome.value.v) = 2
    /\ last_call.outcome.value.v[1].v.voice_id = PyStr("voice-1")
    /\ last_call.outcome.value.v[2].v.voice_id = PyStr("voice-2")

\* the payload with a key renamed when present
Renamed(d, from, to) ==
    IF from \in DOMAIN d.v
    THEN PyDict([k \in (DOMAIN d.v \ {from}) \cup {to} |->
                    IF k = to THEN d.v[from] ELSE d.v[k]])
    ELSE d
SnakeCase(d) ==
    Renamed(Renamed(d, "audioData", "audio_data"), "sampleRate", "sample_rate")
CamelCase(d) ==
    Renamed(Renamed(d, "audio_data", "audioData"), "sample_rate", "sampleRate")
CamelOnly(d) == DOMAIN d.v \cap {"audio_data", "sample_rate"} = {}
SnakeOnly(d) == DOMAIN d.v \cap {"audioData", "sampleRate"} = {}

\* C14: a synthesis payload with camelCase keys only and the payload with
\* the same values under snake_case keys only give the identical record.
C14_KeyCasingEquivalence ==
    AnsweredOk("synthesize") =>
        /\ CamelOnly(AnsweredJson) =>
              last_call.outcome
                  = SpeechSynthesisResponseFromDict(SnakeCase(AnsweredJson))
        /\ SnakeOnly(AnsweredJson) =>
              last_call.outcome
                  = SpeechSynthesisResponseFromDict(CamelCase(AnsweredJson))

\* the camelCase payload of the test suite, deserialized
C14_Witness ==
    /\ AnsweredOk("synthesize")
    /\ DOMAIN AnsweredJson.v = {"audioData", "duration", "sampleRate", "format"}
    /\ ~last_call.outcome.raised
    /\ last_call.outcome.value.v.audio_data = PyStr("abc==")
    /\ last_call.outcome.value.v.sample_rate = PyInt(44100)
    /\ last_call.outcome.value.v.duration = PyFloat("2.5")

\* C15: with both casings of a field present the camelCase key wins, for
\* audio_data and for sample_rate alike; audio_data is "" when neither of
\* its keys is present.
C15_CamelCaseWins ==
    (AnsweredOk("synthesize") /\ ~last_call.outcome.raised) =>
        LET keys == DOMAIN AnsweredJson.v
            made == last_call.outcome.value.v
        IN  /\ {"audioData", "audio_data"} \subseteq keys =>
                  made.audio_data = AnsweredJson.v["audioData"]
            /\ {"sampleRate", "sample_rate"} \subseteq keys =>
                  made.sample_rate = AnsweredJson.v["sampleRate"]
            /\ {"audioData", "audio_data"} \cap keys = {} =>
                  made.audio_data = PyStr("")

NonEmptyId(x) == x.t = "str" /\ Len(x.v) > 0

\* C16: every Voice returned by list_voices or get_voice has a non-empty
\* string voice_id.
C16_VoiceIdNonEmpty ==
    /\ (last_call.op = "list_voices" /\ ~last_call.outcome.raised) =>
          \A i \in 1..Len(last_call.outcome.value.v) :
              NonEmptyId(last_call.outcome.value.v[i].v.voice_id)
    /\ (last_call.op = "get_voice" /\ ~last_call.outcome.raised) =>
          NonEmptyId(last_call.outcome.value.v.voice_id)

OptionalFields == {"sample_rate", "style", "emotion"}

\* C17: the body synthesize sends has `input` (the text), `voice_id` and
\* `audio_format` ("mp3" when not given) and nothing else; to_dict never
\* has a key `input_text` and has an optional field exactly when it is set,
\* with its value.
C17_SerializedRequest ==
    /\ (Answered /\ last_call.op = "synthesize") =>
          /\ last_request.json.t = "dict"
          /\ DOMAIN last_request.json.v = {"input", "voice_id", "audio_format"}
          /\ last_request.json.v["input"] = last_call.args.text
          /\ last_request.json.v["voice_id"] = last_call.args.voice_id
          /\ last_request.json.v["audio_format"]
                 = IF last_call.args.audio_format.t = "omitted"
                   THEN PyStr("mp3") ELSE last_call.args.audio_format
    /\ last_call.op = "to_dict" =>
          LET sent == last_call.outcome.value.v
              args == last_call.args
          IN  /\ DOMAIN sent = {"input", "voice_id", "audio_format"}
                      \cup {k \in OptionalFields : args[k].t # "none"}
              /\ sent["input"] = args.text
              /\ sent["voice_id"] = args.voice_id
              /\ sent["audio_format"] = args.audio_format
              /\ \A k \in OptionalFields \cap DOMAIN sent : sent[k] = args[k]

\* synthesize called without audio_format has sent its body
C17_Witness ==
    /\ Answered
    /\ last_call.op = "synthesize"
    /\ last_call.args.audio_format = Omitted
    /\ last_request.json.v["audio_format"] = PyStr("mp3")
    /\ last_request.json.v["input"] = PyStr("Hello")

\* C19: the cached token is absent or the access_token of the most recent
\* successful create_access_token; a failed create_access_token and every
\* other operation leave it unchanged.
C19_TokenFrame ==
    /\ [](access_token = created_token)
    /\ [][(last_call'.op # "create_access_token" \/ last_call'.outcome.raised)
            => access_token' = access_token]_vars

\* create_access_token has failed on a client that holds a token
C19_Witness ==
    /\ last_call.op = "create_access_token"
    /\ last_call.outcome.raised
    /\ last_call.token_before = PyStr("tok-1")
    /\ access_token = PyStr("tok-1")

\* what synthesize does on this client with the arguments of the call that
\* has just finished, but another speed
WithSpeed(speed) ==
    synthesize(api_key, last_call.token_before, last_call.args.text,
               last_call.args.voice_id, speed,
               DefaultArg(last_call.args.audio_format, PyStr("mp3")),
               last_call.answered)

\* C20: synthesize calls that differ only in speed send the identical
\* request, with no speed in its body, and return the identical record
\* for the same response.
C20_SpeedHasNoEffect ==
    (Answered /\ last_call.op = "synthesize") =>
        /\ "speed" \notin DOMAIN last_request.json.v
        /\ \A speed \in Speeds :
              /\ WithSpeed(speed).request = last_request
              /\ WithSpeed(speed).outcome = last_call.outcome

\* synthesize at a speed other than the default has returned a record
C20_Witness ==
    /\ Answered
    /\ last_call.op = "synthesize"
    /\ last_call.args.speed = 100
    /\ ~last_call.outcome.raised
    /\ last_call.outcome.value.v.audio_data = PyStr("abc==")

====
